---- MODULE Spec2Model ----
(***************************************************************************)
(* Model of src/main.rs: the message pump of the main thread, the worker   *)
(* thread that owns the tray icon, the mpsc channel between them and the   *)
(* native message queue of the main thread.                                *)
(***************************************************************************)
EXTENDS Integers, Sequences, FiniteSets, TLC

\* ------------------------------------------------------------------ bounds
\* Number of messages the environment (OS, user, other processes) posts to
\* the main thread's queue in one run.
MaxPosts == 2

\* Longest window title drawn for mock_key_press, in characters.
MaxTitleLen == 5

\* Largest scaling factor drawn for select_icon, in percent.
MaxScalePct == 2000

\* ------------------------------------------------------------ value domains
\* enum Event
Event == {"Exit", "AutoLaunch", "SystemDpiChanged", "SystemColorChanged"}

\* Messages GetMessageW can hand to the loop.  WM_HOTKEY_OTHER is a WM_HOTKEY
\* whose wParam is not KEYID_CTRL_OEM_3; MENU_EXIT / MENU_AUTOLAUNCH are the
\* messages of the tray's hidden window whose dispatch makes the tray's
\* sender (tx.clone()) send the menu item's event.
Message == {"WM_HOTKEY", "WM_HOTKEY_OTHER", "WM_DPICHANGED",
            "WM_DWMCOLORIZATIONCOLORCHANGED", "MENU_EXIT", "MENU_AUTOLAUNCH",
            "WM_OTHER", "WM_QUIT"}

\* Values of the registry entry SystemUsesLightTheme and of
\* windows_dpi::desktop_dpi() (in percent) the environment moves between.
ThemeValues == {0, 1}
ScaleValues == {100, 150}

\* struct IconParam
IconParam == [light_mode : BOOLEAN, scaling_factor : ScaleValues]

VARIABLES
    mainPc,         \* position of logged_main on the main thread
    workerPc,       \* position of the spawned worker closure
    exitCode,       \* "none" while the process runs, else how it ended
    msgQ,           \* native message queue of the main thread
    chan,           \* mpsc channel: sequence of [evt, n]
    sent,           \* number of events sent on the channel so far
    processed,      \* number of events the worker has received so far
    auto_launch,    \* TRUE iff the Option<AutoLaunch> is Some
    trayAlive,      \* the TrayIcon exists (built and not yet dropped)
    menuHasItem,    \* the menu holds the checkable "Auto Launch" item
    menuChecked,    \* checked state of that item
    trayIcon,       \* parameters of the icon the tray displays
    icon_param,     \* the worker's `icon_param` (last applied parameters)
    extEnabled,     \* external auto-launch registration
    sysTheme,       \* registry value SystemUsesLightTheme
    sysScale,       \* desktop_dpi()
    posts,          \* messages posted by the environment so far
    quitByWorker,   \* the worker has posted WM_QUIT
    last,           \* what the worker did for the last event it received
    toggles,        \* external states around the latest toggles that had no
                    \* failing operation and no external change in between
    lastPump,       \* what the pump did for the last message it retrieved
    startup,        \* outcome of RegisterHotKey and of the tray's build()
    call            \* one call of a pure function: its arguments and result

vars == <<mainPc, workerPc, exitCode, msgQ, chan, sent, processed,
          auto_launch, trayAlive, menuHasItem, menuChecked, trayIcon,
          icon_param, extEnabled, sysTheme, sysScale, posts, quitByWorker,
          last, toggles, lastPump, startup, call>>

envVars == <<extEnabled, sysTheme, sysScale, posts>>
trayVars == <<trayAlive, menuHasItem, menuChecked, trayIcon>>

\* ------------------------------------------------------------------ helpers
\* get_icon_param(): light_mode is matches!(system_uses_light_theme, Some(0));
\* a failed registry read (regOk = FALSE) gives None, hence light_mode false.
get_icon_param(regOk) ==
    [light_mode |-> regOk /\ sysTheme = 0, scaling_factor |-> sysScale]

\* The record kept of the worker's handling of one event.
NoOps(e, n) ==
    [evt |-> e, n |-> n, read |-> "none", mut |-> "none", mutOk |-> FALSE,
     menu |-> "none", menuOk |-> FALSE, iconReq |-> FALSE, iconOk |-> FALSE,
     newParam |-> icon_param, checkedBefore |-> menuChecked,
     onDeadTray |-> FALSE]

\* Variant of send with a plausible slip: a rendezvous, the sender waits for
\* a receiver that is there to take the event.
Send_Rendezvous(e) ==
    /\ workerPc = "recv"
    /\ chan' = Append(chan, [evt |-> e, n |-> sent + 1])
    /\ sent' = sent + 1

\* tx.send(evt): appends to the channel; fails (and is ignored by .ok()) once
\* the receiver is gone, i.e. once the worker closure has ended.
Send(e) ==
    IF workerPc = "ended"
    THEN UNCHANGED <<chan, sent>>
    ELSE /\ chan' = Append(chan, [evt |-> e, n |-> sent + 1])
         /\ sent' = sent + 1

\* Variant of recv with a plausible slip: the newest event first.
recv_Newest(q) == [item |-> q[Len(q)], rest |-> SubSeq(q, 1, Len(q) - 1)]

\* rx.recv(): the oldest event of the channel and the channel without it.
recv(q) == [item |-> Head(q), rest |-> Tail(q)]

Recv(e) ==
    /\ exitCode = "none"
    /\ workerPc = "recv"
    /\ chan # <<>>
    /\ recv(chan).item.evt = e
    /\ chan' = recv(chan).rest
    /\ processed' = processed + 1

\* The record kept of the pump's handling of one message: the message, what
\* was done for it, whether an event was put on the channel, and for the
\* hotkey the foreground window, its title and the key messages posted.
NoPump ==
    [msg |-> "none", act |-> "none", sendOk |-> FALSE, hwnd |-> 0,
     title |-> <<>>, textOk |-> FALSE, posts |-> <<>>]

PumpDid(m, a) == [NoPump EXCEPT !.msg = m, !.act = a]

\* No pure function is being called.
NoCall ==
    [fn |-> "none", done |-> FALSE, hwnd |-> 0, title |-> <<>>,
     textOk |-> FALSE, posts |-> <<>>, light_mode |-> FALSE, scaling |-> 0,
     icon |-> [set |-> "none", size |-> 0]]

\* ---------------------------------------------------------- mock_key_press
\* A window title is a sequence of characters.  The characters that matter
\* to the filter are the space, the hyphen-minus and the em dash; a run of
\* other characters is written as one word.
Words == {"VS Code", "Visual Studio Code", "vs code", "w"}
Chars == {" ", "-", "EM_DASH"} \cup Words

\* Titles quoted by the specification, with the dash it prints (U+2014, "EM_DASH") and
\* with the hyphen-minus.
Title(file, dash, app) == <<file, " ", dash, " ", app>>
ExampleTitles ==
    {Title(f[1], d, f[2]) : f \in {<<"Untitled", "Notepad">>,
                                   <<"main.rs", "Visual Studio Code">>,
                                   <<"foo.ts", "VS Code">>},
                           d \in {"-", "EM_DASH"}}

BoundedSeq(S, n) == UNION {[1..k -> S] : k \in 0..n}
Titles == BoundedSeq(Chars, MaxTitleLen) \cup ExampleTitles

\* Window handles: HWND(0) and one window.
Hwnds == {0, 1}

\* WM_KEYDOWN, WM_KEYUP, VK_OEM_3 and the lParam 1 | 0b10 << 16.
WM_KEYDOWN == 256
WM_KEYUP == 257
VK_OEM_3 == 192
KeyLParam == 1 + 2 * 65536

\* GetWindowTextW + from_utf16_lossy: the title, or nothing when the call
\* fails (it then reports 0 characters).
GetWindowTextW(title, textOk) == IF textOk THEN title ELSE <<>>

\* window_title.rsplit(" - ").next(): the text after the last " - ", found by
\* searching backwards from the end; the whole title when there is none.
RECURSIVE rsplit_from(_, _)
rsplit_from(t, i) ==
    IF i < 1 THEN t
    ELSE IF SubSeq(t, i, i + 2) = <<" ", "-", " ">>
         THEN SubSeq(t, i + 3, Len(t))
         ELSE rsplit_from(t, i - 1)

rsplit_next(t) == rsplit_from(t, Len(t) - 2)

\* str::trim
RECURSIVE trim_start(_)
trim_start(t) ==
    IF t # <<>> /\ Head(t) = " " THEN trim_start(Tail(t)) ELSE t

RECURSIVE trim_end(_)
trim_end(t) ==
    IF t # <<>> /\ t[Len(t)] = " "
    THEN trim_end(SubSeq(t, 1, Len(t) - 1))
    ELSE t

trim(t) == trim_end(trim_start(t))

\* Variant of the filter with a plausible slip: the case is ignored.
is_target_IgnoreCase(window_title) ==
    trim(rsplit_next(window_title)) \in
        {<<"Visual Studio Code">>, <<"VS Code">>, <<"vs code">>}

\* matches!(.., Some("Visual Studio Code" | "VS Code"))
is_target(window_title) ==
    trim(rsplit_next(window_title)) \in {<<"Visual Studio Code">>, <<"VS Code">>}

\* PostMessageA(h_active_wnd, action, WPARAM(VK_OEM_3), LPARAM(..)).warn()
KeyPost(hwnd, action, ok) ==
    [hwnd |-> hwnd, msg |-> action, wParam |-> VK_OEM_3,
     lParam |-> KeyLParam, ok |-> ok]

\* Variants of the posting loop with a plausible slip: the key is never
\* released; the loop is left at the first failed post.
post_keys_DownOnly(hwnd, okDown, okUp) == <<KeyPost(hwnd, WM_KEYDOWN, okDown)>>

post_keys_StopOnError(hwnd, okDown, okUp) ==
    IF okDown
    THEN <<KeyPost(hwnd, WM_KEYDOWN, okDown), KeyPost(hwnd, WM_KEYUP, okUp)>>
    ELSE <<KeyPost(hwnd, WM_KEYDOWN, okDown)>>

\* for action in [WM_KEYDOWN, WM_KEYUP] { PostMessageA(..).warn(); }
post_keys(hwnd, okDown, okUp) ==
    <<KeyPost(hwnd, WM_KEYDOWN, okDown), KeyPost(hwnd, WM_KEYUP, okUp)>>

\* mock_key_press(): the key messages it posts, given the foreground window,
\* its title and the outcomes of GetWindowTextW and of the two posts.
mock_key_press(hwnd, title, textOk, okDown, okUp) ==
    IF hwnd = 0
    THEN <<>>
    ELSE IF ~is_target(GetWindowTextW(title, textOk))
         THEN <<>>
         ELSE post_keys(hwnd, okDown, okUp)

\* ------------------------------------------------------------- select_icon
\* The baked assets: l16 .. l256 and d16 .. d256, each with its nominal size.
Sizes == <<16, 24, 32, 48, 256>>

icons(light_mode) ==
    [i \in 1..Len(Sizes) |->
       [set |-> IF light_mode THEN "light" ELSE "dark", size |-> Sizes[i]]]

\* Saturating cast of a non-negative value to i32.
I32Max == 2147483647
as_i32(x) == IF x > I32Max THEN I32Max ELSE x

\* (size as f32 - target_size).abs() as i32, with target_size =
\* scaling_factor * 16 and the scaling factor given in percent: the distance
\* with its fraction cut off.
size_key(size, pct) ==
    LET d == size * 100 - pct * 16
    IN  as_i32((IF d < 0 THEN -d ELSE d) \div 100)

\* Iterator::min_by_key: of several minimal elements the first is returned.
RECURSIVE min_by_key_from(_, _, _, _)
min_by_key_from(cands, pct, i, best) ==
    IF i > Len(cands) THEN best
    ELSE min_by_key_from(cands, pct, i + 1,
             IF size_key(cands[i].size, pct) < size_key(best.size, pct)
             THEN cands[i] ELSE best)

\* Variant with a plausible slip: of several minimal elements the last.
RECURSIVE min_by_key_last(_, _, _, _)
min_by_key_last(cands, pct, i, best) ==
    IF i > Len(cands) THEN best
    ELSE min_by_key_last(cands, pct, i + 1,
             IF size_key(cands[i].size, pct) <= size_key(best.size, pct)
             THEN cands[i] ELSE best)

select_icon_LastMin(light_mode, pct) ==
    min_by_key_last(icons(light_mode), pct, 2, icons(light_mode)[1])

\* select_icon (cfg(not(test))): the asset returned for the parameters.
select_icon(light_mode, pct) ==
    min_by_key_from(icons(light_mode), pct, 2, icons(light_mode)[1])

\* -------------------------------------------------------------------- Init
Init ==
    /\ mainPc = "register"
    /\ workerPc = "unspawned"
    /\ exitCode = "none"
    /\ msgQ = <<>>
    /\ chan = <<>>
    /\ sent = 0
    /\ processed = 0
    /\ auto_launch = FALSE
    /\ trayAlive = FALSE
    /\ menuHasItem = FALSE
    /\ menuChecked = FALSE
    /\ extEnabled \in BOOLEAN
    /\ sysTheme \in ThemeValues
    /\ sysScale \in ScaleValues
    /\ icon_param = [light_mode |-> FALSE, scaling_factor |-> 100]
    /\ trayIcon = [light_mode |-> FALSE, scaling_factor |-> 100]
    /\ posts = 0
    /\ quitByWorker = FALSE
    /\ last = [evt |-> "none", n |-> 0, read |-> "none", mut |-> "none",
               mutOk |-> FALSE, menu |-> "none", menuOk |-> FALSE,
               iconReq |-> FALSE, iconOk |-> FALSE,
               newParam |-> [light_mode |-> FALSE, scaling_factor |-> 100],
               checkedBefore |-> FALSE, onDeadTray |-> FALSE]
    /\ toggles = <<>>
    /\ lastPump = NoPump
    /\ startup = [hotkey |-> "pending", tray |-> "pending"]
    /\ call = NoCall

\* ------------------------------------------------ calls of the pure functions
\* The arguments drawn for one call of mock_key_press (the foreground window
\* and its title) or of select_icon (the icon parameters).
KeyCalls ==
    {[NoCall EXCEPT !.fn = "mock_key_press", !.hwnd = h, !.title = t] :
        h \in Hwnds \ {0}, t \in Titles}
    \cup {[NoCall EXCEPT !.fn = "mock_key_press"]}

IconCalls ==
    {[NoCall EXCEPT !.fn = "select_icon", !.light_mode = l, !.scaling = p] :
        l \in BOOLEAN, p \in 0..MaxScalePct}

progVars == <<mainPc, workerPc, exitCode, msgQ, chan, sent, processed,
              auto_launch, trayAlive, menuHasItem, menuChecked, trayIcon,
              icon_param, extEnabled, sysTheme, sysScale, posts,
              quitByWorker, last, toggles, lastPump, startup>>

FnInit ==
    /\ mainPc = "register"
    /\ workerPc = "unspawned"
    /\ exitCode = "none"
    /\ msgQ = <<>>
    /\ chan = <<>>
    /\ sent = 0
    /\ processed = 0
    /\ auto_launch = FALSE
    /\ trayAlive = FALSE
    /\ menuHasItem = FALSE
    /\ menuChecked = FALSE
    /\ extEnabled = FALSE
    /\ sysTheme = 0
    /\ sysScale = 100
    /\ icon_param = [light_mode |-> FALSE, scaling_factor |-> 100]
    /\ trayIcon = [light_mode |-> FALSE, scaling_factor |-> 100]
    /\ posts = 0
    /\ quitByWorker = FALSE
    /\ last = [NoOps("none", 0) EXCEPT
                 !.newParam = [light_mode |-> FALSE, scaling_factor |-> 100],
                 !.checkedBefore = FALSE]
    /\ toggles = <<>>
    /\ lastPump = NoPump
    /\ startup = [hotkey |-> "pending", tray |-> "pending"]
    /\ call \in KeyCalls \cup IconCalls

\* mock_key_press() runs on the drawn foreground window.
CallMockKeyPress ==
    /\ call.fn = "mock_key_press"
    /\ ~call.done
    /\ \E textOk \in BOOLEAN, okDown \in BOOLEAN, okUp \in BOOLEAN :
         call' = [call EXCEPT
                    !.done = TRUE,
                    !.textOk = textOk,
                    !.posts = mock_key_press(call.hwnd, call.title, textOk,
                                             okDown, okUp)]
    /\ UNCHANGED progVars

\* select_icon() runs on the drawn parameters.
CallSelectIcon ==
    /\ call.fn = "select_icon"
    /\ ~call.done
    /\ call' = [call EXCEPT
                  !.done = TRUE,
                  !.icon = select_icon(call.light_mode, call.scaling)]
    /\ UNCHANGED progVars

FnNext == CallMockKeyPress \/ CallSelectIcon

FnSpec == FnInit /\ [][FnNext]_vars

\* ---------------------------------------------------------- startup (main)
\* Variant of the registration with a plausible slip: the error is logged and
\* the startup goes on (.warn() in place of `?`).
MainRegisterHotKey_Warn ==
    /\ exitCode = "none"
    /\ mainPc = "register"
    /\ \E ok \in BOOLEAN :
         startup' = [startup EXCEPT
                       !.hotkey = IF ok THEN "registered" ELSE "failed"]
    /\ mainPc' = "build"
    /\ UNCHANGED <<workerPc, exitCode, msgQ, chan, sent, processed,
                   auto_launch, icon_param, quitByWorker, call, last, toggles,
                   lastPump>>
    /\ UNCHANGED trayVars
    /\ UNCHANGED envVars

\* RegisterHotKey(...)?  A failure returns the error from logged_main.
MainRegisterHotKey ==
    /\ exitCode = "none"
    /\ mainPc = "register"
    /\ \E ok \in BOOLEAN :
         IF ok
         THEN /\ mainPc' = "build"
              /\ startup' = [startup EXCEPT !.hotkey = "registered"]
              /\ UNCHANGED exitCode
         ELSE /\ mainPc' = "returned_err"
              /\ startup' = [startup EXCEPT !.hotkey = "failed"]
              /\ exitCode' = "err"
    /\ lastPump' = lastPump
    /\ UNCHANGED <<workerPc, msgQ, chan, sent, processed, auto_launch,
                   icon_param, quitByWorker, call, last, toggles>>
    /\ UNCHANGED trayVars
    /\ UNCHANGED envVars

\* auto_launch, the channel, the first icon_param and the tray with its menu.
\* alSome: the AutoLaunch object could be built; readOk: is_enabled()
\* succeeded, so the menu gets the checkable item, checked as read;
\* regOk: the theme registry read of get_icon_param() succeeded;
\* buildOk: TrayIconBuilder::build() succeeded.
MainBuildTray ==
    /\ exitCode = "none"
    /\ mainPc = "build"
    /\ \E alSome \in BOOLEAN, readOk \in BOOLEAN, regOk \in BOOLEAN,
          buildOk \in BOOLEAN :
         /\ auto_launch' = alSome
         /\ icon_param' = get_icon_param(regOk)
         /\ IF buildOk
            THEN /\ trayAlive' = TRUE
                 /\ menuHasItem' = (alSome /\ readOk)
                 /\ menuChecked' = (alSome /\ readOk /\ extEnabled)
                 /\ trayIcon' = get_icon_param(regOk)
                 /\ mainPc' = "spawn"
                 /\ startup' = [startup EXCEPT !.tray = "built"]
                 /\ UNCHANGED exitCode
            ELSE /\ mainPc' = "returned_err"
                 /\ startup' = [startup EXCEPT !.tray = "failed"]
                 /\ exitCode' = "err"
                 /\ UNCHANGED trayVars
    /\ UNCHANGED <<workerPc, msgQ, chan, sent, processed, quitByWorker, call, last,
                   toggles, lastPump>>
    /\ UNCHANGED envVars

\* thread::scope: the worker closure is spawned (tray, rx, auto_launch and
\* icon_param move into it) and the main thread enters its message loop.
MainSpawnWorker ==
    /\ exitCode = "none"
    /\ mainPc = "spawn"
    /\ mainPc' = "loop"
    /\ workerPc' = "recv"
    /\ UNCHANGED <<exitCode, msgQ, chan, sent, processed, auto_launch,
                   icon_param, quitByWorker, startup, call, last, toggles,
                   lastPump>>
    /\ UNCHANGED trayVars
    /\ UNCHANGED envVars

\* ------------------------------------------------------------ worker thread
\* Event::Exit arm, first half: the event is received; drop(tray) is next.
WorkerExit ==
    /\ Recv("Exit")
    /\ workerPc' = "exit_drop"
    /\ last' = NoOps("Exit", recv(chan).item.n)
    /\ UNCHANGED <<mainPc, exitCode, msgQ, sent, auto_launch, icon_param,
                   quitByWorker, startup, call, toggles, lastPump>>
    /\ UNCHANGED trayVars
    /\ UNCHANGED envVars

\* drop(tray).  The tray's teardown is served by the message pump of the main
\* thread (the comment on the drop: "it relis on the message pump of main
\* thread"), so it completes only while the main thread is still in its
\* message loop.
WorkerDropTray ==
    /\ exitCode = "none"
    /\ workerPc = "exit_drop"
    /\ mainPc = "loop"
    /\ trayAlive' = FALSE
    /\ workerPc' = "exit_post"
    /\ UNCHANGED <<mainPc, exitCode, msgQ, chan, sent, processed, auto_launch,
                   menuHasItem, menuChecked, trayIcon, icon_param,
                   quitByWorker, startup, call, last, toggles,
                   lastPump>>
    /\ UNCHANGED envVars

\* Variant of the post with a plausible slip: the process is exited whether
\* or not the post succeeded.
PostQuit_ExitAlways(at, next) ==
    /\ exitCode = "none"
    /\ workerPc \in at
    /\ \E posted \in BOOLEAN :
         IF posted
         THEN /\ msgQ' = Append(msgQ, "WM_QUIT")
              /\ quitByWorker' = TRUE
         ELSE UNCHANGED <<msgQ, quitByWorker>>
    /\ exitCode' = "-1"
    /\ UNCHANGED <<mainPc, workerPc, chan, sent, processed, auto_launch,
                   icon_param, last, toggles, lastPump, startup, call>>
    /\ UNCHANGED trayVars
    /\ UNCHANGED envVars

\* PostThreadMessageW(tid, WM_QUIT, ..).warn(): Some(_) => break,
\* None => process::exit(-1).  `at` is the set of positions of the worker at
\* which the post is made, `next` the position after a successful post.
PostQuit(at, next) ==
    /\ exitCode = "none"
    /\ workerPc \in at
    /\ \E posted \in BOOLEAN :
         IF posted
         THEN /\ msgQ' = Append(msgQ, "WM_QUIT")
              /\ quitByWorker' = TRUE
              /\ workerPc' = next
              /\ UNCHANGED exitCode
         ELSE /\ exitCode' = "-1"
              /\ UNCHANGED <<msgQ, quitByWorker, workerPc>>
    /\ UNCHANGED <<mainPc, chan, sent, processed, auto_launch, icon_param,
                   last, toggles, lastPump, startup, call>>
    /\ UNCHANGED trayVars
    /\ UNCHANGED envVars

\* Variants of the Exit arm with a plausible slip: the post made without
\* waiting for the drop, and `continue` in place of `break`.
WorkerPostQuit_BeforeDrop == PostQuit({"exit_drop", "exit_post"}, "ended")
WorkerPostQuit_Continue == PostQuit({"exit_post"}, "recv")

WorkerPostQuit == PostQuit({"exit_post"}, "ended")

\* Variants of the AutoLaunch arm with a plausible slip.
\* The displayed state decides in place of a fresh read:
AutoLaunchArm_Cached(ext, checked, readOk, mutOk, menuOk) ==
    IF ~readOk
    THEN [ext |-> ext, checked |-> checked, read |-> "err", mut |-> "none",
          mutOk |-> FALSE, menu |-> "none", menuOk |-> FALSE]
    ELSE [ext |-> IF mutOk THEN ~checked ELSE ext,
          checked |-> IF mutOk /\ menuOk THEN ~checked ELSE checked,
          read |-> IF checked THEN "enabled" ELSE "disabled",
          mut |-> IF checked THEN "disable" ELSE "enable",
          mutOk |-> mutOk,
          menu |-> IF ~mutOk THEN "none"
                   ELSE IF checked THEN "uncheck" ELSE "check",
          menuOk |-> mutOk /\ menuOk]

\* The item is given the state read, not the state written:
AutoLaunchArm_WrongCheck(ext, checked, readOk, mutOk, menuOk) ==
    IF ~readOk \/ ~mutOk
    THEN [ext |-> ext, checked |-> checked,
          read |-> IF ~readOk THEN "err"
                   ELSE IF ext THEN "enabled" ELSE "disabled",
          mut |-> IF ~readOk THEN "none"
                  ELSE IF ext THEN "disable" ELSE "enable",
          mutOk |-> FALSE, menu |-> "none", menuOk |-> FALSE]
    ELSE [ext |-> ~ext, checked |-> IF menuOk THEN ext ELSE checked,
          read |-> IF ext THEN "enabled" ELSE "disabled",
          mut |-> IF ext THEN "disable" ELSE "enable", mutOk |-> TRUE,
          menu |-> IF ext THEN "check" ELSE "uncheck", menuOk |-> menuOk]

\* The item is updated whether or not the request succeeded:
AutoLaunchArm_Optimistic(ext, checked, readOk, mutOk, menuOk) ==
    IF ~readOk
    THEN [ext |-> ext, checked |-> checked, read |-> "err", mut |-> "none",
          mutOk |-> FALSE, menu |-> "none", menuOk |-> FALSE]
    ELSE [ext |-> IF mutOk THEN ~ext ELSE ext,
          checked |-> IF menuOk THEN ~ext ELSE checked,
          read |-> IF ext THEN "enabled" ELSE "disabled",
          mut |-> IF ext THEN "disable" ELSE "enable", mutOk |-> mutOk,
          menu |-> IF ext THEN "uncheck" ELSE "check", menuOk |-> menuOk]

\* Both branches request enable:
AutoLaunchArm_AlwaysEnable(ext, checked, readOk, mutOk, menuOk) ==
    IF ~readOk \/ ~mutOk
    THEN [ext |-> ext, checked |-> checked,
          read |-> IF ~readOk THEN "err"
                   ELSE IF ext THEN "enabled" ELSE "disabled",
          mut |-> IF ~readOk THEN "none" ELSE "enable",
          mutOk |-> FALSE, menu |-> "none", menuOk |-> FALSE]
    ELSE [ext |-> TRUE, checked |-> IF menuOk THEN TRUE ELSE checked,
          read |-> IF ext THEN "enabled" ELSE "disabled",
          mut |-> "enable", mutOk |-> TRUE, menu |-> "check",
          menuOk |-> menuOk]

\* Event::AutoLaunch arm on an existing AutoLaunch object, as a function of
\* the external state `ext`, the displayed state `checked` and the outcomes
\* of is_enabled(), of enable()/disable() and of set_menu_item_checkable().
AutoLaunchArm(ext, checked, readOk, mutOk, menuOk) ==
    IF ~readOk
    THEN [ext |-> ext, checked |-> checked, read |-> "err", mut |-> "none",
          mutOk |-> FALSE, menu |-> "none", menuOk |-> FALSE]
    ELSE LET op == IF ext THEN "disable" ELSE "enable"
             rd == IF ext THEN "enabled" ELSE "disabled"
             mn == IF ext THEN "uncheck" ELSE "check"
         IN  IF ~mutOk
             THEN [ext |-> ext, checked |-> checked, read |-> rd, mut |-> op,
                   mutOk |-> FALSE, menu |-> "none", menuOk |-> FALSE]
             ELSE [ext |-> ~ext,
                   checked |-> IF menuOk THEN ~ext ELSE checked,
                   read |-> rd, mut |-> op, mutOk |-> TRUE, menu |-> mn,
                   menuOk |-> menuOk]

\* History kept for the round trip of two toggles: the external state before
\* the previous clean toggle, before the latest one and after it.
LastTwo(h, before, after) ==
    IF h = <<>> THEN <<before, after>> ELSE <<h[Len(h) - 1], h[Len(h)], after>>

\* The arm is one step of the worker: the registration is changed by others
\* between two arms (ExternalAutoLaunchChange), not inside one.
WorkerAutoLaunch ==
    /\ Recv("AutoLaunch")
    /\ IF ~auto_launch
       THEN /\ last' = NoOps("AutoLaunch", recv(chan).item.n)
            /\ UNCHANGED <<extEnabled, menuChecked, toggles>>
       ELSE \E readOk \in BOOLEAN, mutOk \in BOOLEAN, menuOk \in BOOLEAN :
              LET r == AutoLaunchArm(extEnabled, menuChecked, readOk, mutOk,
                                     menuOk /\ menuHasItem /\ trayAlive)
              IN  /\ extEnabled' = r.ext
                  /\ menuChecked' = r.checked
                  /\ last' = [NoOps("AutoLaunch", recv(chan).item.n) EXCEPT
                                !.read = r.read, !.mut = r.mut,
                                !.mutOk = r.mutOk, !.menu = r.menu,
                                !.menuOk = r.menuOk,
                                !.onDeadTray = (r.menu # "none" /\ ~trayAlive)]
                  /\ toggles' = IF r.mutOk /\ r.menuOk
                                THEN LastTwo(toggles, extEnabled, r.ext)
                                ELSE <<>>
    /\ UNCHANGED <<mainPc, workerPc, exitCode, msgQ, sent, auto_launch,
                   trayAlive, menuHasItem, trayIcon, icon_param, sysTheme,
                   sysScale, posts, quitByWorker, startup, call, lastPump>>

\* Variant of the icon arm with a plausible slip: no comparison.
IconArm_Always(old, shown, new, iconOk) ==
    [icon_param |-> new, shown |-> IF iconOk THEN new ELSE shown,
     iconReq |-> TRUE, iconOk |-> iconOk]

\* Variant of the icon arm with a plausible slip: a failed set_icon() is
\* repeated until it succeeds.
IconArm_Retry(old, shown, new, iconOk) ==
    IF old # new
    THEN [icon_param |-> new, shown |-> new, iconReq |-> TRUE,
          iconOk |-> iconOk]
    ELSE [icon_param |-> old, shown |-> shown, iconReq |-> FALSE,
          iconOk |-> FALSE]

\* Event::SystemDpiChanged | Event::SystemColorChanged arm, as a function of
\* the last applied parameters `old`, the displayed icon `shown`, the
\* recomputed parameters `new` and the outcome of tray.set_icon().
IconArm(old, shown, new, iconOk) ==
    IF old # new
    THEN [icon_param |-> new, shown |-> IF iconOk THEN new ELSE shown,
          iconReq |-> TRUE, iconOk |-> iconOk]
    ELSE [icon_param |-> old, shown |-> shown, iconReq |-> FALSE,
          iconOk |-> FALSE]

WorkerIconChanged(e) ==
    /\ Recv(e)
    /\ \E regOk \in BOOLEAN, iconOk \in BOOLEAN :
         LET new == get_icon_param(regOk)
             r == IconArm(icon_param, trayIcon, new, iconOk /\ trayAlive)
         IN  /\ icon_param' = r.icon_param
             /\ trayIcon' = r.shown
             /\ last' = [NoOps(e, recv(chan).item.n) EXCEPT
                           !.newParam = new, !.iconReq = r.iconReq,
                           !.iconOk = r.iconOk,
                           !.onDeadTray = (r.iconReq /\ ~trayAlive)]
    /\ UNCHANGED <<mainPc, workerPc, exitCode, msgQ, sent, auto_launch,
                   trayAlive, menuHasItem, menuChecked, quitByWorker, startup, call,
                   toggles, lastPump>>
    /\ UNCHANGED envVars

WorkerSystemDpiChanged == WorkerIconChanged("SystemDpiChanged")
WorkerSystemColorChanged == WorkerIconChanged("SystemColorChanged")

\* ------------------------------------------------- message loop (main thread)
\* GetMessageW returned message m (the loop blocks while the queue is empty).
GetMessage(m) ==
    /\ exitCode = "none"
    /\ mainPc = "loop"
    /\ msgQ # <<>>
    /\ Head(msgQ) = m
    /\ msgQ' = Tail(msgQ)

\* GetMessageW returns 0 for WM_QUIT: break; the scope then joins the worker.
PumpQuit ==
    /\ GetMessage("WM_QUIT")
    /\ mainPc' = "join"
    /\ lastPump' = PumpDid("WM_QUIT", "break")
    /\ UNCHANGED <<workerPc, exitCode, chan, sent, processed, auto_launch,
                   icon_param, quitByWorker, startup, call, last, toggles>>
    /\ UNCHANGED trayVars
    /\ UNCHANGED envVars

\* What GetForegroundWindow can find when the hotkey fires: no window, a
\* window of another application, a window of the target application.
Foregrounds ==
    {[hwnd |-> 0, title |-> <<>>],
     [hwnd |-> 1, title |-> Title("Untitled", "-", "Notepad")],
     [hwnd |-> 1, title |-> Title("foo.ts", "-", "VS Code")]}

\* WM_HOTKEY with wParam = KEYID_CTRL_OEM_3: mock_key_press().
PumpHotkey ==
    /\ GetMessage("WM_HOTKEY")
    /\ \E fg \in Foregrounds, textOk \in BOOLEAN, okDown \in BOOLEAN,
          okUp \in BOOLEAN :
         lastPump' = [PumpDid("WM_HOTKEY", "mock_key_press") EXCEPT
                        !.hwnd = fg.hwnd,
                        !.title = fg.title,
                        !.textOk = (fg.hwnd # 0 /\ textOk),
                        !.posts = mock_key_press(fg.hwnd, fg.title, textOk,
                                                 okDown, okUp)]
    /\ UNCHANGED <<mainPc, workerPc, exitCode, chan, sent, processed,
                   auto_launch, icon_param, quitByWorker, startup, call, last, toggles>>
    /\ UNCHANGED trayVars
    /\ UNCHANGED envVars

\* Variant of the forwarding with a plausible slip: the pump recomputes the
\* parameters and sets the icon of the tray itself.
PumpSend_Inline(m, e) ==
    /\ GetMessage(m)
    /\ lastPump' = PumpDid(m, "set_icon")
    /\ \E regOk \in BOOLEAN :
         /\ trayIcon' = IF trayAlive THEN get_icon_param(regOk) ELSE trayIcon
         /\ icon_param' = get_icon_param(regOk)
    /\ UNCHANGED <<mainPc, workerPc, exitCode, chan, sent, processed,
                   auto_launch, trayAlive, menuHasItem, menuChecked,
                   quitByWorker, startup, call, last, toggles>>
    /\ UNCHANGED envVars

\* WM_DPICHANGED / WM_DWMCOLORIZATIONCOLORCHANGED: tx.send(e).ok().
PumpSend(m, e) ==
    /\ GetMessage(m)
    /\ Send(e)
    /\ lastPump' = [PumpDid(m, "send") EXCEPT !.sendOk = (workerPc # "ended")]
    /\ UNCHANGED <<mainPc, workerPc, exitCode, processed, auto_launch,
                   icon_param, quitByWorker, startup, call, last, toggles>>
    /\ UNCHANGED trayVars
    /\ UNCHANGED envVars

PumpDpiChanged == PumpSend("WM_DPICHANGED", "SystemDpiChanged")
PumpColorChanged ==
    PumpSend("WM_DWMCOLORIZATIONCOLORCHANGED", "SystemColorChanged")

\* Any other message: TranslateMessage + DispatchMessageW.  Dispatching a menu
\* command of the tray's window makes the tray (while it exists) send the
\* item's event with the sender it was given, tx.clone().
PumpDispatch ==
    /\ \E m \in {"WM_HOTKEY_OTHER", "WM_OTHER", "MENU_EXIT", "MENU_AUTOLAUNCH"} :
         /\ GetMessage(m)
         /\ lastPump' = PumpDid(m, "dispatch")
         /\ IF m = "MENU_EXIT" /\ trayAlive
            THEN Send("Exit")
            ELSE IF m = "MENU_AUTOLAUNCH" /\ trayAlive /\ menuHasItem
                 THEN Send("AutoLaunch")
                 ELSE UNCHANGED <<chan, sent>>
    /\ UNCHANGED <<mainPc, workerPc, exitCode, processed, auto_launch,
                   icon_param, quitByWorker, startup, call, last, toggles>>
    /\ UNCHANGED trayVars
    /\ UNCHANGED envVars

\* End of thread::scope: it returns once the worker closure has ended; then
\* logged_main returns Ok(()) and the process exits with code 0.
MainJoin ==
    /\ exitCode = "none"
    /\ mainPc = "join"
    /\ workerPc = "ended"
    /\ mainPc' = "returned_ok"
    /\ exitCode' = "0"
    /\ UNCHANGED <<workerPc, msgQ, chan, sent, processed, auto_launch,
                   icon_param, quitByWorker, startup, call, last, toggles,
                   lastPump>>
    /\ UNCHANGED trayVars
    /\ UNCHANGED envVars

\* -------------------------------------------------------------- environment
\* Something posts message m to the queue of the main thread.
Post(m) ==
    /\ exitCode = "none"
    /\ mainPc = "loop"
    /\ posts < MaxPosts
    /\ posts' = posts + 1
    /\ msgQ' = Append(msgQ, m)

\* The user presses a registered hotkey: this one or one with another id.
UserPressesHotkey ==
    /\ \E m \in {"WM_HOTKEY", "WM_HOTKEY_OTHER"} : Post(m)
    /\ UNCHANGED <<mainPc, workerPc, exitCode, chan, sent, processed,
                   auto_launch, icon_param, quitByWorker, startup, call, last, toggles,
                   lastPump, extEnabled, sysTheme, sysScale>>
    /\ UNCHANGED trayVars

\* The display scaling or the theme is set (possibly to what it was) and the
\* notification is queued.
OsDisplayChanged ==
    /\ \E m \in {"WM_DPICHANGED", "WM_DWMCOLORIZATIONCOLORCHANGED"} : Post(m)
    /\ sysTheme' \in ThemeValues
    /\ sysScale' \in ScaleValues
    /\ UNCHANGED <<mainPc, workerPc, exitCode, chan, sent, processed,
                   auto_launch, icon_param, quitByWorker, startup, call, last, toggles,
                   lastPump, extEnabled>>
    /\ UNCHANGED trayVars

\* The user picks an item of the tray menu.
UserClicksMenu ==
    /\ trayAlive
    /\ \E m \in {"MENU_EXIT"} \cup
                (IF menuHasItem THEN {"MENU_AUTOLAUNCH"} ELSE {}) : Post(m)
    /\ UNCHANGED <<mainPc, workerPc, exitCode, chan, sent, processed,
                   auto_launch, icon_param, quitByWorker, startup, call, last, toggles,
                   lastPump, extEnabled, sysTheme, sysScale>>
    /\ UNCHANGED trayVars

OsOtherMessage ==
    /\ Post("WM_OTHER")
    /\ UNCHANGED <<mainPc, workerPc, exitCode, chan, sent, processed,
                   auto_launch, icon_param, quitByWorker, startup, call, last, toggles,
                   lastPump, extEnabled, sysTheme, sysScale>>
    /\ UNCHANGED trayVars

\* WM_QUIT reaches the queue from somewhere else than the worker.
ExternalQuit ==
    /\ Post("WM_QUIT")
    /\ UNCHANGED <<mainPc, workerPc, exitCode, chan, sent, processed,
                   auto_launch, icon_param, quitByWorker, startup, call, last, toggles,
                   lastPump, extEnabled, sysTheme, sysScale>>
    /\ UNCHANGED trayVars

\* The user or the OS changes the auto-launch registration.
ExternalAutoLaunchChange ==
    /\ exitCode = "none"
    /\ mainPc = "loop"
    /\ extEnabled' = ~extEnabled
    /\ toggles' = <<>>
    /\ UNCHANGED <<mainPc, workerPc, exitCode, msgQ, chan, sent, processed,
                   auto_launch, icon_param, quitByWorker, startup, call, last, lastPump,
                   sysTheme, sysScale, posts>>
    /\ UNCHANGED trayVars

\* ------------------------------------------------------------ specification
Main ==
    \/ MainRegisterHotKey
    \/ MainBuildTray
    \/ MainSpawnWorker
    \/ PumpQuit
    \/ PumpHotkey
    \/ PumpDpiChanged
    \/ PumpColorChanged
    \/ PumpDispatch
    \/ MainJoin

Worker ==
    \/ WorkerExit
    \/ WorkerDropTray
    \/ WorkerPostQuit
    \/ WorkerAutoLaunch
    \/ WorkerSystemDpiChanged
    \/ WorkerSystemColorChanged

Environment ==
    \/ UserPressesHotkey
    \/ OsDisplayChanged
    \/ UserClicksMenu
    \/ OsOtherMessage
    \/ ExternalQuit
    \/ ExternalAutoLaunchChange

Next == Main \/ Worker \/ Environment

Spec == Init /\ [][Next]_vars

\* Both threads are scheduled fairly; the environment owes nothing.
FairSpec == Spec /\ WF_vars(Main) /\ WF_vars(Worker)

\* ------------------------------------------------------------------- claims
\* A step in which the worker handles an AutoLaunch event on an existing
\* AutoLaunch object, and one in which it handles a display notification.
ToggleStep ==
    /\ processed' = processed + 1
    /\ last'.evt = "AutoLaunch"
    /\ auto_launch

IconStep ==
    /\ processed' = processed + 1
    /\ last'.evt \in {"SystemDpiChanged", "SystemColorChanged"}

\* The tray has been built and dropped again.
TrayDestroyed == ~trayAlive /\ workerPc \in {"recv", "exit_post", "ended"}

\* C1: the worker never posts the quit sentinel while the tray handle still
\* exists: once it has posted WM_QUIT, the tray has been dropped.
C1_TrayDroppedBeforeQuit == quitByWorker => ~trayAlive

C1_Witness == quitByWorker /\ ~trayAlive /\ last.evt = "Exit"

\* C2: once the worker has received Exit it receives and handles no further
\* event, whatever is queued or sent afterwards, and nothing is done on the
\* tray once the tray has been destroyed.
C2_NoEventAfterExit ==
    [][/\ last.evt = "Exit" =>
            /\ processed' = processed
            /\ last' = last
            /\ Len(chan') >= Len(chan)
       /\ TrayDestroyed =>
            /\ menuChecked' = menuChecked
            /\ trayIcon' = trayIcon
            /\ ~last'.onDeadTray]_vars

C2_Witness ==
    /\ last.evt = "Exit"
    /\ workerPc = "ended"
    /\ ~trayAlive
    /\ chan # <<>>

\* C3: after the worker has received Exit the process eventually terminates:
\* with code 0 if the quit sentinel was posted, with a non-zero code if it
\* could not be; and the worker never goes back to receiving.
C3_ExitTerminates ==
    /\ (last.evt = "Exit") ~> (exitCode \in {"0", "-1"})
    /\ [](last.evt = "Exit" /\ exitCode # "none" =>
            exitCode = IF quitByWorker THEN "0" ELSE "-1")
    /\ [][last.evt = "Exit" => workerPc' # "recv"]_vars

\* C4: whenever the pump has retrieved the quit sentinel and left its loop,
\* logged_main returns Ok, whatever the worker is doing (the one way out
\* granted besides is the worker's own process::exit).
C4_QuitReturnsOk ==
    (mainPc = "join") ~> (mainPc = "returned_ok" \/ exitCode = "-1")

\* C5: every toggle acts on a fresh read of the external state: enabled ->
\* disable requested and, on success, the item set unchecked; disabled ->
\* enable requested and, on success, the item set checked; whatever the item
\* displayed before.
C5_ToggleReadsFresh ==
    [][ToggleStep =>
         /\ last'.read \in {"err", IF extEnabled THEN "enabled" ELSE "disabled"}
         /\ last'.read = "enabled" =>
              /\ last'.mut = "disable"
              /\ last'.mutOk =>
                   /\ ~extEnabled'
                   /\ last'.menu = "uncheck"
                   /\ last'.menuOk => ~menuChecked'
         /\ last'.read = "disabled" =>
              /\ last'.mut = "enable"
              /\ last'.mutOk =>
                   /\ extEnabled'
                   /\ last'.menu = "check"
                   /\ last'.menuOk => menuChecked']_vars

\* A toggle that found the item unchecked while the registration was enabled
\* (changed by someone else), and disabled it.
C5_Witness ==
    /\ last.evt = "AutoLaunch"
    /\ last.read = "enabled"
    /\ ~last.checkedBefore
    /\ last.mutOk
    /\ last.menu = "uncheck"

C7_FailureLeavesDisplay ==
    [][ToggleStep /\ (last'.read = "err" \/ ~last'.mutOk) =>
         /\ menuChecked' = menuChecked
         /\ last'.menu = "none"
         /\ last'.read = "err" => (last'.mut = "none" /\ extEnabled' = extEnabled)]_vars

C7_Witness ==
    /\ last.evt = "AutoLaunch"
    /\ last.read # "err"
    /\ last.mut # "none"
    /\ ~last.mutOk
    /\ menuChecked = last.checkedBefore

\* C8: two toggles without a failing operation and without an external change
\* in between bring the external state back to where it was, and after each
\* of them the item's checked state equals the external state.
C8_ToggleTwiceRoundTrip ==
    /\ Len(toggles) >= 2 =>
         /\ extEnabled = toggles[Len(toggles)]
         /\ menuChecked = extEnabled
         /\ toggles[Len(toggles) - 1] = ~extEnabled
    /\ Len(toggles) = 3 => toggles[1] = extEnabled

C8_Witness == Len(toggles) = 3 /\ last.evt = "AutoLaunch"

\* C9: the channel changes only by a send of the pump, appended at its end
\* while the pump handles a message, or by the worker receiving its oldest
\* event, and the events are received in the
\* order they were sent: the k-th event received is the k-th event sent.
C9_FifoSingleConsumer ==
    [][chan' # chan =>
         \/ /\ sent' = sent + 1
            /\ processed' = processed
            /\ mainPc = "loop" /\ msgQ # <<>> /\ msgQ' = Tail(msgQ)
            /\ \E e \in Event : chan' = Append(chan, [evt |-> e, n |-> sent'])
         \/ /\ chan # <<>>
            /\ chan' = Tail(chan)
            /\ sent' = sent
            /\ processed' = processed + 1
            /\ Head(chan).n = processed'
            /\ last'.evt = Head(chan).evt
            /\ last'.n = processed']_vars

C9_Witness == processed = 2 /\ last.n = 2

\* C10: on SystemDpiChanged / SystemColorChanged the worker requests an icon
\* update exactly when the recomputed parameters differ from the last applied
\* ones; with equal parameters neither the icon nor icon_param changes.
C10_IconUpdateIffChanged ==
    [][IconStep =>
         /\ last'.iconReq <=> (last'.newParam # icon_param)
         /\ last'.iconReq => icon_param' = last'.newParam
         /\ ~last'.iconReq => (icon_param' = icon_param /\ trayIcon' = trayIcon)]_vars

C10_Witness ==
    /\ last.evt \in {"SystemDpiChanged", "SystemColorChanged"}
    /\ ~last.iconReq
    /\ last.newParam = icon_param

\* The title's trailing segment (what follows its last " - ", or all of it
\* when it has none) consists of one of the two application names with
\* nothing but spaces around it.
SepStarts(t) ==
    {i \in 1..(Len(t) - 2) : t[i] = " " /\ t[i + 1] = "-" /\ t[i + 2] = " "}

SegmentStart(t) ==
    IF SepStarts(t) = {} THEN 1
    ELSE 3 + CHOOSE i \in SepStarts(t) : \A j \in SepStarts(t) : j <= i

TrailingIsTarget(t) ==
    \E j \in SegmentStart(t)..Len(t) :
       /\ t[j] \in {"Visual Studio Code", "VS Code"}
       /\ \A i \in (SegmentStart(t)..Len(t)) \ {j} : t[i] = " "

\* C11: the filter fails closed: mock_key_press posts no key message when
\* there is no foreground window, when the title could not be retrieved, or
\* when the title's trailing segment is not exactly one of the two names.
C11_FilterFailsClosed ==
    (call.fn = "mock_key_press" /\ call.done) =>
        ((call.hwnd = 0 \/ ~call.textOk \/ ~TrailingIsTarget(call.title))
            => call.posts = <<>>)

\* A title that ends in the name in another case: nothing is posted.
C11_Witness ==
    /\ call.fn = "mock_key_press"
    /\ call.done
    /\ call.hwnd # 0
    /\ call.textOk
    /\ call.title = <<"w", " ", "-", " ", "vs code">>
    /\ call.posts = <<>>

\* Exactly one key-down and then one key-up for the backtick key were posted
\* to window h.
PostedDownUp(ps, h) ==
    /\ Len(ps) = 2
    /\ ps[1].msg = WM_KEYDOWN /\ ps[2].msg = WM_KEYUP
    /\ \A i \in 1..2 : ps[i].hwnd = h /\ ps[i].wParam = VK_OEM_3

\* mock_key_press has run on an existing window whose title was retrieved.
KeyCallDone ==
    call.fn = "mock_key_press" /\ call.done /\ call.hwnd # 0 /\ call.textOk

\* C12 as stated: "Untitled -- Notepad" is rejected and "main.rs -- Visual
\* Studio Code" and "foo.ts -- VS Code", written with the em dash, are
\* accepted: one key-down and one key-up are posted, in that order.
C12_EmDashTitlesAccepted ==
    KeyCallDone =>
        /\ call.title = Title("Untitled", "EM_DASH", "Notepad")
              => call.posts = <<>>
        /\ call.title \in {Title("main.rs", "EM_DASH", "Visual Studio Code"),
                           Title("foo.ts", "EM_DASH", "VS Code")}
              => PostedDownUp(call.posts, call.hwnd)

\* C12 as amended: the three titles written with the em dash are rejected;
\* "main.rs - Visual Studio Code" and "foo.ts - VS Code", written with the
\* separator " - " the filter splits on, are accepted, and for them exactly
\* one key-down and then one key-up for the backtick key are posted to that
\* window.
C12_HyphenTitlesAccepted ==
    KeyCallDone =>
        /\ call.title \in {Title("Untitled", "EM_DASH", "Notepad"),
                           Title("Untitled", "-", "Notepad"),
                           Title("main.rs", "EM_DASH", "Visual Studio Code"),
                           Title("foo.ts", "EM_DASH", "VS Code")}
              => call.posts = <<>>
        /\ call.title \in {Title("main.rs", "-", "Visual Studio Code"),
                           Title("foo.ts", "-", "VS Code")}
              => PostedDownUp(call.posts, call.hwnd)

C12_Witness ==
    /\ KeyCallDone
    /\ call.title = Title("foo.ts", "-", "VS Code")
    /\ PostedDownUp(call.posts, call.hwnd)

\* The pump retrieves message m in this step.
Retrieves(m) ==
    /\ exitCode = "none"
    /\ mainPc = "loop"
    /\ msgQ # <<>>
    /\ Head(msgQ) = m
    /\ msgQ' = Tail(msgQ)

\* C13: in the step in which the pump retrieves a hotkey message with the
\* registered id while the foreground window is an accepted target, it posts
\* to that window exactly one key-down and then exactly one key-up for the
\* backtick key, both with the same lParam, whatever the outcome of either
\* post; the pump stays in its loop and the process goes on.
C13_HotkeyPostsDownUp ==
    [][Retrieves("WM_HOTKEY") =>
         /\ lastPump'.act = "mock_key_press"
         /\ mainPc' = "loop" /\ exitCode' = "none"
         /\ (lastPump'.hwnd # 0 /\ lastPump'.textOk
                /\ TrailingIsTarget(lastPump'.title)) =>
              /\ PostedDownUp(lastPump'.posts, lastPump'.hwnd)
              /\ lastPump'.posts[1].lParam = KeyLParam
              /\ lastPump'.posts[2].lParam = KeyLParam]_vars

\* The key-down post failed and the key-up was posted all the same.
C13_Witness ==
    /\ lastPump.msg = "WM_HOTKEY"
    /\ PostedDownUp(lastPump.posts, lastPump.hwnd)
    /\ ~lastPump.posts[1].ok
    /\ lastPump.posts[2].ok
    /\ mainPc = "loop"

\* Nothing of the program after the startup exists: no worker, no message
\* retrieved, and logged_main has returned the error.
StartupAborted ==
    /\ workerPc = "unspawned"
    /\ lastPump = NoPump
    /\ msgQ = <<>> /\ chan = <<>> /\ processed = 0
    /\ mainPc = "returned_err"
    /\ exitCode = "err"

\* C14: startup failures are fatal and precede the message loop.  After a
\* failed hotkey registration no tray is built, no worker is started, no
\* message is retrieved and logged_main has returned the error; after a failed
\* tray construction no worker is started, no message is retrieved and
\* logged_main has returned the error.
C14_StartupFailureAborts ==
    /\ startup.hotkey = "failed" =>
          startup.tray = "pending" /\ ~trayAlive /\ StartupAborted
    /\ startup.tray = "failed" => ~trayAlive /\ StartupAborted
    /\ workerPc # "unspawned" =>
          startup = [hotkey |-> "registered", tray |-> "built"]

\* The hotkey was registered and the construction of the tray failed.
C14_Witness ==
    /\ startup = [hotkey |-> "registered", tray |-> "failed"]
    /\ exitCode = "err"

\* C15: the process is exited abruptly (code -1) only by the worker, only
\* while it handles an Exit event, and only when the post of the quit sentinel
\* failed: the step that exits is made after the drop of the tray, with Exit
\* as the event in hand, and puts nothing on the queue of the pump.  No other
\* step, whatever fails in it, exits the process this way.
C15_AbruptExitOnlyOnFailedQuitPost ==
    [][(exitCode' = "-1" /\ exitCode # "-1") =>
         /\ workerPc = "exit_post"
         /\ last.evt = "Exit"
         /\ msgQ' = msgQ
         /\ ~quitByWorker'
         /\ ~trayAlive]_vars

\* The process was exited by the worker, which had handled another event
\* before the Exit.
C15_Witness ==
    /\ exitCode = "-1"
    /\ workerPc = "exit_post"
    /\ ~quitByWorker
    /\ processed >= 2

\* A step of the worker: it takes an event from the channel, or it drops the
\* tray in the Exit arm.
WorkerStep ==
    \/ processed' = processed + 1
    \/ workerPc = "exit_drop" /\ workerPc' = "exit_post"

\* The channel after the step is the channel before it, or that with the one
\* event e appended.
SentAtMostOne(e) ==
    \/ chan' = chan
    \/ /\ Len(chan') = Len(chan) + 1
       /\ SubSeq(chan', 1, Len(chan)) = chan
       /\ chan'[Len(chan')].evt = e

\* C16: once built, the tray is mutated by the worker alone: every change of
\* its menu check, of its icon or of its existence is made in a step of the
\* worker.  The pump, on a display-scaling or theme notification, leaves the
\* tray and the recorded icon parameters as they are and does nothing but
\* send SystemDpiChanged, respectively SystemColorChanged, on the channel.
C16_TrayOwnedByWorker ==
    [][/\ (startup.tray = "built" /\ trayVars' # trayVars) => WorkerStep
       /\ Retrieves("WM_DPICHANGED") =>
            /\ UNCHANGED <<trayVars, icon_param>>
            /\ lastPump'.act = "send"
            /\ SentAtMostOne("SystemDpiChanged")
       /\ Retrieves("WM_DWMCOLORIZATIONCOLORCHANGED") =>
            /\ UNCHANGED <<trayVars, icon_param>>
            /\ lastPump'.act = "send"
            /\ SentAtMostOne("SystemColorChanged")]_vars

\* The worker has set a new icon on a notification that the pump forwarded.
C16_Witness ==
    /\ last.evt \in {"SystemDpiChanged", "SystemColorChanged"}
    /\ last.iconReq /\ last.iconOk
    /\ trayIcon = last.newParam
    /\ lastPump.act = "send" /\ lastPump.sendOk

\* The exact distance, in hundredths of a pixel, between a nominal size and
\* the target size 16 * scaling (the scaling given in percent).
Distance(size, pct) ==
    LET d == size * 100 - pct * 16 IN IF d < 0 THEN -d ELSE d

\* A call of select_icon has returned.
IconCallDone == call.fn = "select_icon" /\ call.done

\* C17: select_icon returns an asset of the set chosen by light_mode, of a
\* nominal size among 16, 24, 32, 48, 256 whose distance to 16 * scaling is
\* minimal, and of several sizes at minimal distance the first in declared
\* order; scaling 1.0 gives 16, 1.5 gives 24 and 3.0 gives 48.
C17_SelectIconNearest ==
    IconCallDone =>
      /\ call.icon.set = (IF call.light_mode THEN "light" ELSE "dark")
      /\ \E i \in 1..Len(Sizes) :
           /\ call.icon.size = Sizes[i]
           /\ \A j \in 1..Len(Sizes) :
                Distance(Sizes[i], call.scaling) <=
                    Distance(Sizes[j], call.scaling)
           /\ \A j \in 1..(i - 1) :
                Distance(Sizes[i], call.scaling) <
                    Distance(Sizes[j], call.scaling)
      /\ call.scaling = 100 => call.icon.size = 16
      /\ call.scaling = 150 => call.icon.size = 24
      /\ call.scaling = 300 => call.icon.size = 48

\* A tie: at scaling 1.25 the sizes 16 and 24 are equally far from the
\* target 20, and the first of them was returned from the light set.
C17_Witness ==
    /\ IconCallDone
    /\ call.light_mode
    /\ call.scaling = 125
    /\ Distance(16, call.scaling) = Distance(24, call.scaling)
    /\ call.icon = [set |-> "light", size |-> 16]

\* The pump has a message to retrieve.
PumpHasMessage == exitCode = "none" /\ mainPc = "loop" /\ msgQ # <<>>

\* What the pump does in the step for a display notification m forwarded as
\* event e: one send, which is lost when the worker has ended.
ForwardsOnly(m, e) ==
    Retrieves(m) =>
      /\ lastPump' = [PumpDid(m, "send") EXCEPT !.sendOk = (workerPc # "ended")]
      /\ IF workerPc = "ended"
         THEN chan' = chan
         ELSE chan' = Append(chan, [evt |-> e, n |-> sent + 1])
      /\ mainPc' = "loop" /\ exitCode' = "none"

\* C18: the pump never waits on the worker: whenever a message is in its
\* queue it can take its step, wherever the worker is.  For the message it
\* retrieves it does exactly one thing: the keystroke forwarding for the
\* hotkey with the registered id, one send of SystemDpiChanged or of
\* SystemColorChanged for the two display notifications, the default
\* dispatch for anything else (a hotkey with another id included).  A send
\* that fails because the worker has ended is ignored, and the pump leaves
\* its loop only when it retrieves the quit sentinel.
C18_PumpNeverWaits ==
    /\ [](PumpHasMessage => ENABLED Main)
    /\ [][/\ Retrieves("WM_HOTKEY") =>
              lastPump'.act = "mock_key_press" /\ chan' = chan
          /\ ForwardsOnly("WM_DPICHANGED", "SystemDpiChanged")
          /\ ForwardsOnly("WM_DWMCOLORIZATIONCOLORCHANGED",
                          "SystemColorChanged")
          /\ \A m \in {"WM_HOTKEY_OTHER", "WM_OTHER", "MENU_EXIT",
                        "MENU_AUTOLAUNCH"} :
               Retrieves(m) => lastPump' = PumpDid(m, "dispatch")
          /\ Retrieves("WM_HOTKEY_OTHER") => chan' = chan
          /\ (PumpHasMessage /\ mainPc' # "loop") =>
               Retrieves("WM_QUIT") /\ mainPc' = "join"]_vars

\* The worker has ended, the pump has since retrieved a display notification,
\* its send was lost, and the pump is still in its loop.
C18_Witness ==
    /\ workerPc = "ended"
    /\ lastPump.act = "send"
    /\ ~lastPump.sendOk
    /\ mainPc = "loop"
    /\ exitCode = "none"

\* A step in which the worker handles an event other than Exit.
HandlesNonExit ==
    /\ processed' = processed + 1
    /\ last'.evt \in {"AutoLaunch", "SystemDpiChanged", "SystemColorChanged"}

\* C19: whatever fails while the worker handles a ToggleAutoLaunch,
\* SystemDpiChanged or SystemColorChanged event, the worker is back at its
\* receive afterwards, the process goes on, and the next event of the channel
\* can be taken.  Nothing is repeated within the handling: a failed read
\* leaves the registration and the menu as they were, a failed mutation or
\* menu update leaves the check mark as it was, a failed icon update leaves
\* the displayed icon as it was.
C19_DegradedContinue ==
    /\ []((exitCode = "none" /\ workerPc = "recv" /\ chan # <<>>) =>
            ENABLED Worker)
    /\ [][HandlesNonExit =>
            /\ workerPc' = "recv" /\ exitCode' = "none"
            /\ chan' = Tail(chan)
            /\ last'.read = "err" =>
                 UNCHANGED <<extEnabled, menuChecked>> /\ last'.mut = "none"
            /\ (last'.mut # "none" /\ ~last'.mutOk) =>
                 UNCHANGED <<extEnabled, menuChecked>> /\ last'.menu = "none"
            /\ (last'.menu # "none" /\ ~last'.menuOk) =>
                 UNCHANGED menuChecked
            /\ (last'.iconReq /\ ~last'.iconOk) =>
                 UNCHANGED trayIcon]_vars

\* An icon update failed earlier (the displayed icon is not the recorded
\* one) and the worker has since handled an auto-launch toggle.
C19_Witness ==
    /\ trayIcon # icon_param
    /\ last.evt = "AutoLaunch"
    /\ processed >= 2
    /\ workerPc = "recv"
    /\ exitCode = "none"

\* C20: while the worker runs and holds the tray, the icon parameters it
\* records as last applied are those of the icon the tray displays; hence a
\* display notification that finds parameters other than the displayed ones
\* gets an update request.
C20_IconParamIsDisplayed ==
    (workerPc \in {"recv", "exit_drop"} /\ trayAlive) => icon_param = trayIcon

====
